---- MODULE Spec2Model ----
(***************************************************************************)
(* The agent orchestration runtime of intelligent_agents: Runner (registry,*)
(* run, run_sequence, run_parallel, execution history) and the trace span  *)
(* of agents.py, as a state machine over the coroutines of one asyncio     *)
(* event loop.  One action is one step of a coroutine between two          *)
(* suspension points.                                                      *)
(***************************************************************************)
EXTENDS Integers, Sequences, FiniteSets, TLC

VARIABLES
    agents,             \* Runner.agents: name -> registered unit (or NoAgent)
    execution_history,  \* Runner.execution_history: the list of records
    frames,             \* the activations of Runner.run, in call order
    events,             \* trace signals printed so far, with the points where
                        \* a unit is invoked and a record appended (observers)
    seq,                \* the activation of Runner.run_sequence
    par,                \* the activation of Runner.run_parallel
    cleared_at,         \* observer: number of run calls made before the last clear_history
    latest,             \* observer: name -> the unit of the last register_agent call for it
    got,                \* what the caller's last get_agent call gave
    snapshot,           \* the list the caller's last get_execution_history call gave
    orch,               \* the activation of Orchestrator.run_research
    trace_ids,          \* the strings gen_trace_id has returned, in call order
    tool                \* the activation of a decorated tool function

\* the state outside the Runner: its callers, the decorators, gen_trace_id
outside == <<got, snapshot, orch, trace_ids, tool>>

vars == <<agents, execution_history, frames, events, seq, par, cleared_at, latest, outside>>

-----------------------------------------------------------------------------
(* Bounds of the model *)

MaxCalls == 2       \* run calls made by the top-level flow
MaxSteps == 3       \* steps of a run_sequence
MaxTasks == 2       \* tasks of a run_parallel
MaxObserved == 2    \* run calls made while the accessors are observed
MaxQueries == 2     \* search queries the planner returns
MaxIds == 3         \* calls of gen_trace_id
MaxArgs == 2        \* positional arguments of a call of a decorated function
MaxEdits == 2       \* edits the caller makes to a list get_execution_history gave

(* str(x)[:500] in Runner.run *)
SummaryLimit == 500

-----------------------------------------------------------------------------
(* Values.  A string is its text label and its length; a value is known by *)
(* the string str() gives for it.                                          *)

Names == {"a", "b"}

NoAgent == "none"

\* "sync": execute runs to completion without yielding to the event loop (built
\* on Agent.call_model, which calls the blocking client inside an async def);
\* "async": execute suspends on real I/O and completes later.
Units == {"sync", "async"}

Blocking(u) == u = "sync"

Short == 3
Long == SummaryLimit + 1

Inputs == {[id |-> "in", len |-> Short], [id |-> "IN", len |-> Long]}

Outputs == {[id |-> "out", len |-> Short], [id |-> "OUT", len |-> Long]}

Messages == {[text |-> "boom", len |-> 4], [text |-> "BOOM", len |-> Long]}

StrOf(v) == [text |-> v.id, len |-> v.len]

\* (mutant) the slice is forgotten: str(x) is stored whole
PrefixWhole(s, n) == s

Prefix(s, n) == [text |-> s.text, len |-> IF s.len < n THEN s.len ELSE n]

\* (mutant) no membership test: self.agents[agent_name] raises KeyError(agent_name)
NotFoundKeyError(name) ==
    [type |-> "KeyError", origin |-> 0, msg |-> [text |-> "'" \o name \o "'", len |-> Len(name) + 2]]

\* raise ValueError(f"Agent '{agent_name}' not found")
NotFound(name) ==
    LET m == "Agent '" \o name \o "' not found"
    IN  [type |-> "ValueError", origin |-> 0, msg |-> [text |-> m, len |-> Len(m)]]

\* the failures the unit invoked by call f can raise
UnitErrors(f) == {[type |-> "UnitError", origin |-> f, msg |-> m] : m \in Messages}

Pending == [kind |-> "pending"]
Value(v) == [kind |-> "value", value |-> v]
Error(e) == [kind |-> "error", exc |-> e]

\* the lists of at most n elements of S
RECURSIVE ListsUpTo(_, _)
ListsUpTo(S, n) ==
    IF n = 0 THEN {<<>>}
    ELSE LET shorter == ListsUpTo(S, n - 1)
         IN  shorter \cup {Append(l, x) : l \in {m \in shorter : Len(m) = n - 1}, x \in S}

\* The four units Orchestrator._setup_agents registers
OrchNames == {"query_planner", "web_searcher", "synthesis", "output_guardrails"}

\* the text every composed report starts with ("# ... Intelligent Research
\* Report"); a string either contains it or does not
HeaderToken == "# Intelligent Research Report"

\* the user's queries: a plain topic, and a topic that quotes the header
UserQueries == {[id |-> "topic", len |-> Short, token |-> FALSE],
                [id |-> HeaderToken, len |-> Len(HeaderToken), token |-> TRUE]}

\* a search query the planning model wrote itself
DerivedQuery == [id |-> "derived", len |-> Short, token |-> FALSE]

\* QueryPlannerAgent.execute: the queries the model's answer holds (any number
\* of them), or the fallback that searches for the user's query itself
Plans(user_query) ==
    {[id |-> "plan", len |-> Short, queries |-> qs] :
        qs \in ListsUpTo({DerivedQuery, user_query}, MaxQueries)}

\* WebSearcherAgent.execute returns a SearchResult with status success or error
SearchResults == {[id |-> "result", len |-> Long, status |-> s] : s \in {"success", "error"}}

\* what `await self.web_search_tool.search(request)` can do: return the hits or
\* raise (WebSearchTool.search re-raises the failures of the model call)
SearchCalls ==
    {Value([id |-> "hits", len |-> Long])} \cup {Error(e) : e \in UnitErrors(0)}

\* (mutant) search_web ends with `except Exception: raise`
SearchWebReraise(call) ==
    IF call.kind = "value"
    THEN Value([id |-> "result", len |-> Long, status |-> "success"])
    ELSE call

\* WebSearcherAgent.search_web: the hits are combined into a SearchResult with
\* status success; any failure is turned into a SearchResult with status error
SearchWeb(call) ==
    IF call.kind = "value"
    THEN Value([id |-> "result", len |-> Long, status |-> "success"])
    ELSE Value([id |-> "result", len |-> Long, status |-> "error"])

\* SynthesisAgent.execute returns a ResearchReport; its title is the model's text
Reports == {[id |-> "report", len |-> Long, title |-> [token |-> t]] : t \in BOOLEAN}

\* OutputGuardrailsAgent.execute returns a ValidationResult; `issues` tells
\* whether its list of issues has elements
Validations ==
    {[id |-> "validation", len |-> Short, is_clean |-> c, issues |-> i, message |-> m] :
        c \in BOOLEAN, i \in BOOLEAN, m \in {"Content validation completed", "Validation error"}}

\* what the model call of validate_content and the parsing of its answer can
\* do: give a verdict (is_clean and issues as the answer states them) or raise
ValidationCalls ==
    {Value([is_clean |-> c, issues |-> i]) : c \in BOOLEAN, i \in BOOLEAN}
        \cup {Error(e) : e \in UnitErrors(0)}

\* (mutant) a validation that fails counts as a finding
ValidateContentFailClosed(call) ==
    IF call.kind = "value"
    THEN Value([id |-> "validation", len |-> Short, is_clean |-> call.value.is_clean,
                issues |-> call.value.issues, message |-> "Content validation completed"])
    ELSE Value([id |-> "validation", len |-> Short, is_clean |-> FALSE,
                issues |-> TRUE, message |-> "Validation error"])

\* OutputGuardrailsAgent.validate_content: the verdict of the model, or, when
\* anything raised, a ValidationResult with is_clean=True and issues=[]
ValidateContent(call) ==
    IF call.kind = "value"
    THEN Value([id |-> "validation", len |-> Short, is_clean |-> call.value.is_clean,
                issues |-> call.value.issues, message |-> "Content validation completed"])
    ELSE Value([id |-> "validation", len |-> Short, is_clean |-> TRUE,
                issues |-> FALSE, message |-> "Validation error"])

\* what the execute of a unit of the research pipeline can do: the planner and
\* the synthesis re-raise their failures, the searcher and the guardrails turn
\* theirs into a result
StageOutcomes(name, input, f) ==
    IF name = "query_planner"
    THEN {Value(v) : v \in Plans(input)} \cup {Error(e) : e \in UnitErrors(f)}
    ELSE IF name = "web_searcher"
    THEN {SearchWeb(call) : call \in SearchCalls}
    ELSE IF name = "synthesis"
    THEN {Value(v) : v \in Reports} \cup {Error(e) : e \in UnitErrors(f)}
    ELSE {ValidateContent(call) : call \in ValidationCalls}

\* what agent.execute(input_data) can do once it completes
Outcomes(f) ==
    IF frames[f].agent_name \in OrchNames
    THEN StageOutcomes(frames[f].agent_name, frames[f].input_data, f)
    ELSE {Value(v) : v \in Outputs} \cup {Error(e) : e \in UnitErrors(f)}

-----------------------------------------------------------------------------
(* trace(operation) of agents.py *)

Signal(kind, op, f) == [kind |-> kind, op |-> op, f |-> f]

RunSpan(name) == "Run Agent: " \o name

\* time.time(): the clock advances with every signal
Now(log) == Len(log)

\* lines 17 and 20: start_time = time.time(), print the start signal
TraceEnter(log, op, f) ==
    Append(log, [kind |-> "start", op |-> op, f |-> f, at |-> Now(log)])

\* the start_time local of the span (op, f)
StartTime(log, op, f) ==
    LET i == CHOOSE i \in 1..Len(log) :
                 log[i].kind = "start" /\ log[i].op = op /\ log[i].f = f
    IN  log[i].at

\* the start_time most recently taken by any span
LastStartTime(log) ==
    LET i == CHOOSE i \in 1..Len(log) :
                 /\ log[i].kind = "start"
                 /\ \A j \in (i + 1)..Len(log) : log[j].kind # "start"
    IN  log[i].at

\* (mutant) start_time is a module global that every span overwrites
TraceExitSharedTimer(log, op, f, outcome) ==
    IF outcome.kind = "error"
    THEN Append(log, [kind |-> "failure", op |-> op, f |-> f,
                      duration |-> Now(log) - LastStartTime(log), error |-> outcome.exc.msg])
    ELSE Append(log, [kind |-> "success", op |-> op, f |-> f,
                      duration |-> Now(log) - LastStartTime(log)])

\* (mutant) the success signal is printed in a finally clause
TraceExitAlwaysCompleted(log, op, f, outcome) ==
    LET d == Now(log) - StartTime(log, op, f)
        failed == Append(log, [kind |-> "failure", op |-> op, f |-> f,
                               duration |-> d, error |-> outcome.exc.msg])
    IN  Append(IF outcome.kind = "error" THEN failed ELSE log,
               [kind |-> "success", op |-> op, f |-> f, duration |-> d])

\* lines 21-26 after the yield: the block returned (success signal) or raised an Exception
\* (failure signal with str(e)), each with duration = time.time() - start_time
TraceExit(log, op, f, outcome) ==
    IF outcome.kind = "error"
    THEN Append(log, [kind |-> "failure", op |-> op, f |-> f,
                      duration |-> Now(log) - StartTime(log, op, f), error |-> outcome.exc.msg])
    ELSE Append(log, [kind |-> "success", op |-> op, f |-> f,
                      duration |-> Now(log) - StartTime(log, op, f)])

\* (mutant) the except branch of the span has no `raise`: the with statement
\* ends normally and the function around it returns None
TraceOutcomeSwallowed(outcome) ==
    IF outcome.kind = "error" THEN [kind |-> "value", value |-> [id |-> "None", len |-> 4]] ELSE outcome

\* what the with statement hands to the code around it: the block's value, or
\* line 27 `raise`, the block's own exception
TraceOutcome(outcome) == outcome

-----------------------------------------------------------------------------
(* Runner.run *)

NewFrame(name, input, owner) ==
    [agent_name |-> name, input_data |-> input, owner |-> owner, pc |-> "created",
     agent |-> NoAgent, unit_out |-> Pending, outcome |-> Pending]

SuccessRecord(name, input, result) ==
    [agent_name |-> name,
     input_data |-> Prefix(StrOf(input), SummaryLimit),
     result     |-> Prefix(StrOf(result), SummaryLimit),
     status     |-> "success"]

\* (mutant) the record keeps the exception's type name instead of str(e)
ErrorRecordTypeOnly(name, input, e) ==
    [agent_name |-> name,
     input_data |-> Prefix(StrOf(input), SummaryLimit),
     error      |-> [text |-> e.type, len |-> Len(e.type)],
     status     |-> "error"]

\* (mutant) the except branch stores str(e) under the key the success branch uses
ErrorRecordAsResult(name, input, e) ==
    [agent_name |-> name,
     input_data |-> Prefix(StrOf(input), SummaryLimit),
     result     |-> e.msg,
     status     |-> "error"]

ErrorRecord(name, input, e) ==
    [agent_name |-> name,
     input_data |-> Prefix(StrOf(input), SummaryLimit),
     error      |-> e.msg,
     status     |-> "error"]

RecordFor(fr, out) ==
    IF out.kind = "value"
    THEN SuccessRecord(fr.agent_name, fr.input_data, out.value)
    ELSE ErrorRecord(fr.agent_name, fr.input_data, out.exc)

\* (mutant) the runner keeps one slot for the record of the call in progress:
\* a record appended while another is present replaces it
AppendRecordShared(history, rec) ==
    IF history = <<>> THEN <<rec>> ELSE [history EXCEPT ![Len(history)] = rec]

\* (mutant) self.execution_history.insert(0, execution_record)
AppendRecordFront(history, rec) == <<rec>> \o history

\* self.execution_history.append(execution_record)
\* (mutant) the except branch only re-raises
AppendSuccessOnly(history, rec) ==
    IF rec.status = "error" THEN history ELSE Append(history, rec)

AppendRecord(history, rec) == Append(history, rec)

NoneValue == [id |-> "None", len |-> 4]

\* (mutant) the except branch records and falls through: run returns None
RunOutcomeSwallowed(out) ==
    IF out.kind = "error" THEN Value(NoneValue) ELSE out

\* what run hands to its caller when the try block ended with `out`:
\* `return result` (line 52) or `raise` (line 63)
RunOutcome(out) == out

\* gather's done callback for child f of the batch: the first failure completes
\* the outer future at once, the others are left running
GatherCallback(p, f, out) ==
    IF p.pc = "gather" /\ out.kind = "error" /\ p.first_exc.kind = "pending"
    THEN [p EXCEPT !.first_exc = out]
    ELSE p

\* (mutant) the span closes around the await only: the record is appended
\* after the span's end signal
FinishRecordOutsideSpan(f, unit, log, out) ==
    LET fr == frames[f]
    IN  /\ execution_history' = AppendRecord(execution_history, RecordFor(fr, out))
        /\ events' = Append(TraceExit(log, RunSpan(fr.agent_name), f, RunOutcome(out)),
                            Signal("record", RunSpan(fr.agent_name), f))
        /\ frames' = [frames EXCEPT ![f] = [@ EXCEPT !.pc = "done", !.agent = unit,
                                                     !.unit_out = IF unit = NoAgent THEN Pending ELSE out,
                                                     !.outcome = TraceOutcome(RunOutcome(out))]]
        /\ par' = IF fr.owner = "par"
                  THEN GatherCallback(par, f, TraceOutcome(RunOutcome(out)))
                  ELSE par

\* lines 43-52 and 54-63: build the record, append it, leave the span, hand the
\* outcome to the caller.  `out` is what the try block produced, `log` the events
\* up to that point.
Finish(f, unit, log, out) ==
    LET fr == frames[f]
    IN  /\ execution_history' = AppendRecord(execution_history, RecordFor(fr, out))
        /\ events' = TraceExit(Append(log, Signal("record", RunSpan(fr.agent_name), f)),
                               RunSpan(fr.agent_name), f, RunOutcome(out))
        /\ frames' = [frames EXCEPT ![f] = [@ EXCEPT !.pc = "done", !.agent = unit,
                                                     !.unit_out = IF unit = NoAgent THEN Pending ELSE out,
                                                     !.outcome = TraceOutcome(RunOutcome(out))]]
        /\ par' = IF fr.owner = "par"
                  THEN GatherCallback(par, f, TraceOutcome(RunOutcome(out)))
                  ELSE par

\* the children of a gather start in list order (the loop's ready queue is FIFO)
MayStart(f) ==
    frames[f].owner = "par" => \A g \in 1..(f - 1) : frames[g].owner = "par" => frames[g].pc # "created"

\* (mutant) a name whose last dispatch was recorded as an error is skipped
LookupUnlessFailed(name) ==
    IF \E n \in 1..Len(execution_history) :
           execution_history[n].agent_name = name /\ execution_history[n].status = "error"
    THEN NoAgent
    ELSE agents[name]

\* lines 37-40: `agent_name not in self.agents`, `self.agents[agent_name]`
Lookup(name) == agents[name]

\* lines 35-41: enter the span, look the name up, invoke execute
Dispatch(f) ==
    /\ frames[f].pc = "created"
    /\ MayStart(f)
    /\ LET name == frames[f].agent_name
           entered == TraceEnter(events, RunSpan(name), f)
           invoked == Append(entered, Signal("invoke", RunSpan(name), f))
       IN  IF Lookup(name) = NoAgent
           THEN Finish(f, NoAgent, entered, Error(NotFound(name)))
           ELSE IF Blocking(Lookup(name))
           THEN \E out \in Outcomes(f) : Finish(f, Lookup(name), invoked, out)
           ELSE /\ frames' = [frames EXCEPT ![f] = [@ EXCEPT !.pc = "awaiting", !.agent = Lookup(name)]]
                /\ events' = invoked
                /\ UNCHANGED <<execution_history, par>>
    /\ UNCHANGED <<agents, seq, cleared_at, latest, outside>>

\* (mutant) execute is awaited with asyncio.wait_for(..., config.timeout)
ResumeOrTimeout(f) ==
    /\ frames[f].pc = "awaiting"
    /\ \E out \in Outcomes(f) \cup
                  {Error([type |-> "TimeoutError", origin |-> 0, msg |-> [text |-> "", len |-> 0]])} :
           Finish(f, frames[f].agent, events, out)
    /\ UNCHANGED <<agents, seq, cleared_at, latest, outside>>

\* (mutant) run looks the name up again after the await: the record and the
\* result are those of the unit registered when execute completes
ResumeRebound(f) ==
    /\ frames[f].pc = "awaiting"
    /\ \E out \in Outcomes(f) : Finish(f, Lookup(frames[f].agent_name), events, out)
    /\ UNCHANGED <<agents, seq, cleared_at, latest, outside>>

\* the awaited execute completes and run resumes
Resume(f) ==
    /\ frames[f].pc = "awaiting"
    /\ \E out \in Outcomes(f) : Finish(f, frames[f].agent, events, out)
    /\ UNCHANGED <<agents, seq, cleared_at, latest, outside>>

-----------------------------------------------------------------------------
(* The top-level flow: register_agent, run, clear_history *)

Idle ==
    /\ \A f \in DOMAIN frames : frames[f].pc = "done"
    /\ seq.pc = "idle"
    /\ par.pc = "idle"

\* (mutant) self.agents.setdefault(name, agent): the first registration stays
RegisterAgentKeepFirst(name, unit) ==
    /\ Idle
    /\ agents' = IF agents[name] = NoAgent THEN [agents EXCEPT ![name] = unit] ELSE agents
    /\ latest' = [latest EXCEPT ![name] = unit]
    /\ UNCHANGED <<execution_history, frames, events, seq, par, cleared_at, outside>>

\* Runner.register_agent: self.agents[name] = agent
RegisterAgent(name, unit) ==
    /\ Idle
    /\ agents' = [agents EXCEPT ![name] = unit]
    /\ latest' = [latest EXCEPT ![name] = unit]
    /\ UNCHANGED <<execution_history, frames, events, seq, par, cleared_at, outside>>

\* a direct `await runner.run(name, input)`
CallRun(name, input) ==
    /\ Idle
    /\ Len(frames) < MaxCalls
    /\ frames' = Append(frames, NewFrame(name, input, "main"))
    /\ UNCHANGED <<agents, execution_history, events, seq, par, cleared_at, latest, outside>>

\* register_agent called by another task of the event loop while a run call
\* is suspended in execute
RegisterAgentMeanwhile(name, unit) ==
    /\ \E f \in DOMAIN frames : frames[f].pc = "awaiting"
    /\ seq.pc = "idle" /\ par.pc = "idle"
    /\ agents' = [agents EXCEPT ![name] = unit]
    /\ latest' = [latest EXCEPT ![name] = unit]
    /\ UNCHANGED <<execution_history, frames, events, seq, par, cleared_at, outside>>

\* `await runner.run(name, input)` in another task of the event loop while a
\* run call is suspended in execute
SpawnRun(name, input) ==
    /\ \E f \in DOMAIN frames : frames[f].pc = "awaiting"
    /\ seq.pc = "idle" /\ par.pc = "idle"
    /\ Len(frames) < MaxCalls
    /\ frames' = Append(frames, NewFrame(name, input, "main"))
    /\ UNCHANGED <<agents, execution_history, events, seq, par, cleared_at, latest, outside>>

\* (mutant) clear_history re-runs __init__: the registry is emptied as well
ClearHistoryAndRegistry ==
    /\ Idle
    /\ execution_history' = <<>>
    /\ agents' = [n \in DOMAIN agents |-> NoAgent]
    /\ cleared_at' = Len(frames)
    /\ UNCHANGED <<frames, events, seq, par, latest, outside>>

\* Runner.clear_history
ClearHistory ==
    /\ Idle
    /\ execution_history' = <<>>
    /\ cleared_at' = Len(frames)
    /\ UNCHANGED <<agents, frames, events, seq, par, latest, outside>>

\* the Runner's own state
inside == <<agents, execution_history, frames, events, seq, par, cleared_at, latest>>

\* (mutant) return self.agents[name]: an absent name raises KeyError
GetUnchecked(registry, name) ==
    IF registry[name] = NoAgent
    THEN Error([type |-> "KeyError", origin |-> 0, msg |-> [text |-> name, len |-> Len(name)]])
    ELSE Value(registry[name])

\* dict.get(name): the value stored under the key, None without the key
Get(registry, name) ==
    Value(IF registry[name] = NoAgent THEN "None" ELSE registry[name])

\* the caller is one flow of control: it uses the accessors between its awaits
Quiescent ==
    /\ \A f \in DOMAIN frames : frames[f].pc = "done"
    /\ seq.pc \in {"idle", "done"}
    /\ par.pc \in {"idle", "done"}

\* Runner.get_agent: return self.agents.get(name)
GetAgent(name) ==
    /\ Quiescent
    /\ got' = Get(agents, name)
    /\ UNCHANGED <<inside, snapshot, orch, trace_ids, tool>>

\* list.copy(): a new list with the same elements
Copy(list) == [i \in 1..Len(list) |-> list[i]]

\* (mutant) return self.execution_history: the caller holds the runner's own list
ReturnedListAlias(list) ==
    [taken |-> TRUE, same |-> TRUE, list |-> <<>>, given |-> list, edits |-> 0]

\* the list object the caller receives: a new object (`same` tells whether it
\* is the runner's own list), with the elements the history has now; `given`
\* and `edits` observe what the caller was given and how often it has edited it
ReturnedList(list) ==
    [taken |-> TRUE, same |-> FALSE, list |-> Copy(list), given |-> list, edits |-> 0]

\* (mutant) the history is handed over: the runner starts a new list
GetExecutionHistoryDrain ==
    /\ Quiescent
    /\ snapshot' = ReturnedList(execution_history)
    /\ execution_history' = <<>>
    /\ UNCHANGED <<agents, frames, events, seq, par, cleared_at, latest, got, orch, trace_ids, tool>>

\* Runner.get_execution_history: return self.execution_history.copy()
GetExecutionHistory ==
    /\ Quiescent
    /\ snapshot' = ReturnedList(execution_history)
    /\ UNCHANGED <<inside, got, orch, trace_ids, tool>>

\* the elements of the list object the caller holds
Held == IF snapshot.same THEN execution_history ELSE snapshot.list

\* an element the caller adds to the list it holds
CallerItem == [agent_name |-> "caller", status |-> "note"]

\* the caller edits the list it was given: held.append(item)
CallerAppend ==
    /\ Quiescent
    /\ snapshot.taken
    /\ snapshot.edits < MaxEdits
    /\ snapshot' = [snapshot EXCEPT !.list = IF snapshot.same THEN @ ELSE Append(@, CallerItem),
                                    !.given = Append(@, CallerItem),
                                    !.edits = @ + 1]
    /\ execution_history' = IF snapshot.same THEN Append(execution_history, CallerItem)
                            ELSE execution_history
    /\ UNCHANGED <<agents, frames, events, seq, par, cleared_at, latest, got, orch, trace_ids, tool>>

\* the caller edits the list it was given: held.pop(0)
CallerPop ==
    /\ Quiescent
    /\ snapshot.taken
    /\ snapshot.edits < MaxEdits
    /\ Held # <<>>
    /\ snapshot' = [snapshot EXCEPT !.list = IF snapshot.same THEN @ ELSE Tail(@),
                                    !.given = IF @ = <<>> THEN @ ELSE Tail(@),
                                    !.edits = @ + 1]
    /\ execution_history' = IF snapshot.same THEN Tail(execution_history)
                            ELSE execution_history
    /\ UNCHANGED <<agents, frames, events, seq, par, cleared_at, latest, got, orch, trace_ids, tool>>

-----------------------------------------------------------------------------
(* Runner.run_sequence *)

NoSeq == [pc |-> "idle"]

SeqSpan == "Run Sequence"

\* lines 75-77: enter the span, results = []
SeqCall(steps) ==
    /\ Idle
    /\ frames = <<>>
    /\ events' = TraceEnter(events, SeqSpan, 0)
    /\ seq' = [pc |-> "loop", steps |-> steps, i |-> 1, results |-> <<>>,
               cur |-> 0, outcome |-> Pending]
    /\ UNCHANGED <<agents, execution_history, frames, par, cleared_at, latest, outside>>

\* lines 78-82: the next step calls self.run(step["agent"], step.get("input"))
SeqStep ==
    /\ seq.pc = "loop"
    /\ seq.i <= Len(seq.steps)
    /\ frames' = Append(frames, NewFrame(seq.steps[seq.i].agent, seq.steps[seq.i].input, "seq"))
    /\ seq' = [seq EXCEPT !.pc = "await", !.cur = Len(frames) + 1]
    /\ UNCHANGED <<agents, execution_history, events, par, cleared_at, latest, outside>>

\* (mutant) the failure is wrapped in an error of the sequencer
SeqFailureWrapped(out) ==
    Error([type |-> "SequenceAbortedError", origin |-> 0, msg |-> out.exc.msg])

\* what run_sequence does with a failure of self.run: `except Exception: raise`
SeqFailure(out) == out

\* (mutant) results.insert(0, result)
SeqAccumulateFront(results, v) == <<v>> \o results

\* results.append(result)
SeqAccumulate(results, v) == Append(results, v)

\* (mutant) a failed step is dispatched again
SeqCollectRetry ==
    /\ seq.pc = "await"
    /\ frames[seq.cur].pc = "done"
    /\ LET out == frames[seq.cur].outcome
       IN  IF out.kind = "value"
           THEN seq' = [seq EXCEPT !.pc = "loop", !.i = @ + 1,
                                   !.results = SeqAccumulate(@, out.value)]
           ELSE seq' = [seq EXCEPT !.pc = "loop"]
    /\ UNCHANGED <<agents, execution_history, frames, events, par, cleared_at, latest, outside>>

\* lines 82-83 and 87-88: the awaited run has completed
SeqCollect ==
    /\ seq.pc = "await"
    /\ frames[seq.cur].pc = "done"
    /\ LET out == frames[seq.cur].outcome
       IN  IF out.kind = "value"
           THEN /\ seq' = [seq EXCEPT !.pc = "loop", !.i = @ + 1,
                                      !.results = SeqAccumulate(@, out.value)]
                /\ UNCHANGED events
           ELSE /\ seq' = [seq EXCEPT !.pc = "done", !.outcome = TraceOutcome(SeqFailure(out))]
                /\ events' = TraceExit(events, SeqSpan, 0, SeqFailure(out))
    /\ UNCHANGED <<agents, execution_history, frames, par, cleared_at, latest, outside>>

\* line 85: return results
SeqReturn ==
    /\ seq.pc = "loop"
    /\ seq.i > Len(seq.steps)
    /\ seq' = [seq EXCEPT !.pc = "done", !.outcome = TraceOutcome(Value(seq.results))]
    /\ events' = TraceExit(events, SeqSpan, 0, Value(seq.results))
    /\ UNCHANGED <<agents, execution_history, frames, par, cleared_at, latest, outside>>

-----------------------------------------------------------------------------
(* Runner.run_parallel *)

NoPar == [pc |-> "idle"]

ParSpan == "Run Parallel"

\* lines 102-109: enter the span, build one run_task coroutine per task, hand
\* them to asyncio.gather (which wraps each in a task) and await the gather
ParCall(tasks) ==
    /\ Idle
    /\ frames = <<>>
    /\ events' = TraceEnter(events, ParSpan, 0)
    /\ frames' = [i \in 1..Len(tasks) |-> NewFrame(tasks[i].agent, tasks[i].input, "par")]
    /\ par' = [pc |-> "gather", tasks |-> tasks, kids |-> [i \in 1..Len(tasks) |-> i],
               first_exc |-> Pending, outcome |-> Pending]
    /\ UNCHANGED <<agents, execution_history, seq, cleared_at, latest, outside>>

\* the children of the batch in the order they completed
Completed(p) ==
    LET recs == SelectSeq(events, LAMBDA e : e.kind = "record" /\ frames[e.f].owner = "par")
    IN  [i \in 1..Len(recs) |-> recs[i].f]

\* (mutant) the results are collected as the children complete
GatherResultsByCompletion(p) ==
    [i \in 1..Len(p.kids) |-> frames[Completed(p)[i]].outcome.value]

\* the list gather gives when every child returned: the children's results in
\* the order of the arguments
GatherResults(p) == [i \in 1..Len(p.kids) |-> frames[p.kids[i]].outcome.value]

\* (mutant) a failed batch gives the results of the children that returned
GatherOutcomePartial(p) ==
    LET ok == SelectSeq(p.kids, LAMBDA k : frames[k].outcome.kind = "value")
    IN  Value([i \in 1..Len(ok) |-> frames[ok[i]].outcome.value])

\* (mutant) gather raises the failure of the failed child that comes first in
\* the argument list
GatherOutcomeLowestIndex(p) ==
    LET failed == SelectSeq(p.kids, LAMBDA k : frames[k].outcome.kind = "error")
    IN  IF p.first_exc.kind = "error" THEN frames[failed[1]].outcome ELSE Value(GatherResults(p))

\* the outcome of `await asyncio.gather(...)`
GatherOutcome(p) ==
    IF p.first_exc.kind = "error" THEN p.first_exc ELSE Value(GatherResults(p))

\* (mutant) gather waits until every child has returned a value
GatherDoneAllReturned(p) ==
    \A i \in 1..Len(p.kids) :
        frames[p.kids[i]].pc = "done" /\ frames[p.kids[i]].outcome.kind = "value"

\* the outer future of gather is done: at the first failure, or when every
\* child has returned
GatherDone(p) ==
    \/ p.first_exc.kind = "error"
    \/ \A i \in 1..Len(p.kids) : frames[p.kids[i]].pc = "done"

\* lines 109-113: run_parallel resumes from the await.  Every child has had its
\* first step by then: they were all in the ready queue before gather's callback.
ParResume ==
    /\ par.pc = "gather"
    /\ \A i \in 1..Len(par.kids) : frames[par.kids[i]].pc # "created"
    /\ GatherDone(par)
    /\ par' = [par EXCEPT !.pc = "done", !.outcome = TraceOutcome(GatherOutcome(par))]
    /\ events' = TraceExit(events, ParSpan, 0, GatherOutcome(par))
    /\ UNCHANGED <<agents, execution_history, frames, seq, cleared_at, latest, outside>>

-----------------------------------------------------------------------------
(* Orchestrator.run_research, an async generator, and its consumer *)

OrchSpan == "Research Orchestration"

\* a progress line; `token` tells whether its text contains the header token
Line(text, token) == [kind |-> "progress", text |-> text, token |-> token]

\* line 74: the failure notification, with str(e)
FailureLine(e) == [kind |-> "failure", text |-> e.msg.text, token |-> FALSE]

\* _format_final_report: the text starts with the header
FinalReport(report, validation, request) ==
    [kind |-> "report", text |-> HeaderToken, token |-> TRUE]

\* lines 45-46 and 52: the lines that quote a planned query (query.query[:50])
PlannedLine(q) == Line("Planned query", q.token)
SearchLine(q) == Line("Search", q.token)

\* line 55: f"Search completed: {result.status}"
StatusLine(result) == Line("Search completed: " \o result.status, FALSE)

\* line 66: 'Clean' if validation_result.is_clean else 'Issues detected'
VerdictLine(validation) ==
    Line("Validation completed: " \o (IF validation.is_clean THEN "Clean" ELSE "Issues detected"),
         FALSE)

\* a dispatch of the pipeline: `await self.runner.run(name, input)`
OrchRun(name, input) == Append(frames, NewFrame(name, input, "orch"))

SynthesisInput == [id |-> "search_results", len |-> Long]

\* (mutant) the handler yields the notification and returns
OrchFailureSilent(out) == [kind |-> "value", value |-> [id |-> "None", len |-> 4]]

\* line 75: `raise` after the failure notification
OrchFailure(out) == out

\* lines 73-75: a dispatch raised: yield the failure notification, re-raise
\* through the span
OrchFail(out) ==
    /\ orch' = [orch EXCEPT !.pc = "done",
                            !.out = Append(@, FailureLine(out.exc)),
                            !.outcome = TraceOutcome(OrchFailure(out))]
    /\ events' = TraceExit(events, OrchSpan, 0, OrchFailure(out))
    /\ UNCHANGED frames

\* lines 33-42: enter the span, yield the first two lines, dispatch the planner
OrchCall(user_query) ==
    /\ Idle
    /\ orch.pc = "idle"
    /\ frames = <<>>
    /\ events' = TraceEnter(events, OrchSpan, 0)
    /\ frames' = OrchRun("query_planner", user_query)
    /\ orch' = [pc |-> "planning", query |-> user_query,
                out |-> <<Line("Starting", FALSE), Line("Planning", FALSE)>>,
                plan |-> <<>>, i |-> 0, results |-> <<>>, cur |-> 1, outcome |-> Pending]
    /\ UNCHANGED <<agents, execution_history, seq, par, cleared_at, latest,
                   got, snapshot, trace_ids, tool>>

\* (mutant) only the first planned query is searched
StageAfterSearchFirstOnly(i, queries) ==
    IF i = 0 /\ queries # <<>> THEN "web_searcher" ELSE "synthesis"

\* lines 51 and 59: the loop over the planned queries, i of them searched so
\* far; after the last one (or without any) the synthesis is next
StageAfterSearch(i, queries) ==
    IF i < Len(queries) THEN "web_searcher" ELSE "synthesis"

\* the generator goes on to dispatch `stage`, yielding the line before it
OrchDispatch(o, stage) ==
    IF stage = "web_searcher"
    THEN /\ frames' = OrchRun("web_searcher", o.plan[o.i + 1])
         /\ orch' = [o EXCEPT !.pc = "searching", !.i = @ + 1, !.cur = Len(frames) + 1,
                               !.out = Append(@, SearchLine(o.plan[o.i + 1]))]
    ELSE /\ frames' = OrchRun("synthesis", SynthesisInput)
         /\ orch' = [o EXCEPT !.pc = "synthesizing", !.cur = Len(frames) + 1,
                               !.out = Append(@, Line("Synthesizing", FALSE))]

\* lines 42-52: the planner returned: one line per planned query, the line
\* that opens the searches, then the first search (or the synthesis)
OrchPlanned ==
    /\ orch.pc = "planning"
    /\ frames[orch.cur].pc = "done"
    /\ LET out == frames[orch.cur].outcome
       IN  IF out.kind = "error"
           THEN OrchFail(out)
           ELSE LET qs == out.value.queries
                    o  == [orch EXCEPT !.plan = qs,
                                       !.out = @ \o [n \in 1..Len(qs) |-> PlannedLine(qs[n])]
                                                 \o <<Line("Searching", FALSE)>>]
                IN  /\ OrchDispatch(o, StageAfterSearch(0, qs))
                    /\ UNCHANGED events
    /\ UNCHANGED <<agents, execution_history, seq, par, cleared_at, latest,
                   got, snapshot, trace_ids, tool>>

\* lines 54-56 and 59-61: a search returned: keep its result, yield its status,
\* go on with the next query or with the synthesis
OrchSearched ==
    /\ orch.pc = "searching"
    /\ frames[orch.cur].pc = "done"
    /\ LET out == frames[orch.cur].outcome
       IN  IF out.kind = "error"
           THEN OrchFail(out)
           ELSE LET o == [orch EXCEPT !.results = Append(@, out.value),
                                      !.out = Append(@, StatusLine(out.value))]
                IN  /\ OrchDispatch(o, StageAfterSearch(o.i, o.plan))
                    /\ UNCHANGED events
    /\ UNCHANGED <<agents, execution_history, seq, par, cleared_at, latest,
                   got, snapshot, trace_ids, tool>>

\* lines 61-66: the synthesis returned: yield the line with the report's title,
\* the validation line, dispatch the guardrails with the report
OrchSynthesized ==
    /\ orch.pc = "synthesizing"
    /\ frames[orch.cur].pc = "done"
    /\ LET out == frames[orch.cur].outcome
       IN  IF out.kind = "error"
           THEN OrchFail(out)
           ELSE /\ frames' = OrchRun("output_guardrails", out.value)
                /\ orch' = [orch EXCEPT !.pc = "validating", !.cur = Len(frames) + 1,
                                        !.out = @ \o <<Line("Report generated", out.value.title.token),
                                                      Line("Validating", FALSE)>>]
                /\ UNCHANGED events
    /\ UNCHANGED <<agents, execution_history, seq, par, cleared_at, latest,
                   got, snapshot, trace_ids, tool>>

\* lines 66-71: the validation returned: yield its verdict, the compiling line
\* and the composed report; the generator ends and the span with it
OrchValidated ==
    /\ orch.pc = "validating"
    /\ frames[orch.cur].pc = "done"
    /\ LET out == frames[orch.cur].outcome
       IN  IF out.kind = "error"
           THEN OrchFail(out)
           ELSE /\ orch' = [orch EXCEPT
                               !.pc = "done",
                               !.out = @ \o <<VerdictLine(out.value),
                                             Line("Compiling", FALSE),
                                             FinalReport(frames[orch.cur].input_data, out.value, orch.query)>>,
                               !.outcome = TraceOutcome([kind |-> "value", value |-> [id |-> "None", len |-> 4]])]
                /\ events' = TraceExit(events, OrchSpan, 0, Value(NoneValue))
                /\ UNCHANGED frames
    /\ UNCHANGED <<agents, execution_history, seq, par, cleared_at, latest,
                   got, snapshot, trace_ids, tool>>

\* DeepResearchAgent.process_research_query, lines 70-75 and 80-81: what the
\* consumer of the sequence reports once the generator has ended.  The report
\* is the joined text from the first occurrence of the header token on (the
\* whole text without one); a failure gives the error strings.
Consumed(o) ==
    IF o.outcome.kind = "error"
    THEN [kind |-> "error", text |-> o.outcome.exc.msg.text]
    ELSE LET with_token == {n \in 1..Len(o.out) : o.out[n].token}
             start == IF with_token = {} THEN 1
                      ELSE CHOOSE n \in with_token : \A m \in with_token : n <= m
         in_report == [n \in 1..(Len(o.out) - start + 1) |-> o.out[start + n - 1]]
         IN  [kind |-> "report", parts |-> in_report]

-----------------------------------------------------------------------------
(* gen_trace_id of agents.py *)

\* uuid.uuid4().hex is 32 hexadecimal digits, all of the first 8 random; a
\* uuid is kept as its first 8 digits and the digits after them
Heads == {"00000000", "0000000f", "ffffffff"}
Rests == {"0a", "f5"}

\* the values uuid.uuid4() can return
Uuids == {[head |-> h, rest |-> r] : h \in Heads, r \in Rests}

\* hex[:8]
HexPrefix(u) == u.head

\* f"trace_{uuid.uuid4().hex[:8]}"
TraceId(u) == "trace_" \o HexPrefix(u)

\* gen_trace_id(): uuid4 gives a value it has not given before
GenTraceId(u) ==
    /\ Len(trace_ids) < MaxIds
    /\ \A n \in 1..Len(trace_ids) : trace_ids[n].uuid # u
    /\ trace_ids' = Append(trace_ids, [uuid |-> u, id |-> TraceId(u)])
    /\ UNCHANGED <<inside, got, snapshot, orch, tool>>

-----------------------------------------------------------------------------
(* function_tool and agent_tool of decorators.py *)

Decorators == {"function_tool", "agent_tool"}

\* the name argument of the decorator; None is its default
ToolNames == {"None", "search_web"}

\* the decorated functions: async def (coroutine) or def
Funcs == {[name |-> "fetch", coroutine |-> c] : c \in BOOLEAN}

\* the positional and the keyword arguments of a call of the decorated callable
Positionals == ListsUpTo({"a", "b"}, MaxArgs)
Keywords == {{}, {<<"limit", "a">>}}

\* what the body of the decorated function can do: return a value or raise
FuncOutcomes == {Value(v) : v \in Outputs} \cup {Error(e) : e \in UnitErrors(0)}

\* tool_name = name or func.__name__
ToolName(name, func) == IF name = "None" THEN func.name ELSE name

\* how the wrapper binds its parameters: (*args, **kwargs) for function_tool,
\* (self, *args, **kwargs) for agent_tool
Bind(decorator, positional, kwargs) ==
    IF decorator = "agent_tool"
    THEN [self |-> <<Head(positional)>>, args |-> Tail(positional), kwargs |-> kwargs]
    ELSE [self |-> <<>>, args |-> positional, kwargs |-> kwargs]

\* the arguments of func(*args, **kwargs) and of func(self, *args, **kwargs)
Forwarded(bound) ==
    [positional |-> bound.self \o bound.args, kwargs |-> bound.kwargs]

\* TypeError of `await x` for an x that is not awaitable
NotAwaitable ==
    LET m == "object can't be used in 'await' expression"
    IN  [type |-> "TypeError", origin |-> 0, msg |-> [text |-> m, len |-> Len(m)]]

\* the call of a def function runs its body at once.  function_tool takes what
\* it returns as the result; agent_tool awaits what it returns
PlainCall(decorator, out) ==
    IF decorator = "agent_tool" /\ out.kind = "value" THEN Error(NotAwaitable) ELSE out

\* (mutant) the wrapper has no `return result`
WrapperResultDropped(out) ==
    IF out.kind = "value" THEN Value([id |-> "None", len |-> 4]) ELSE out

\* return result, and except Exception: raise
WrapperResult(out) == out

\* the wrapper has left the with statement: the end signal of the span, and the
\* result or the failure for the caller
ToolFinish(t, func_out, out) ==
    [t EXCEPT !.pc = "done",
              !.func_out = func_out,
              !.outcome = TraceOutcome(WrapperResult(out)),
              !.log = TraceExit(t.log, t.tool_name, 0, out)]

\* a call of the decorated callable, up to the first point where it waits:
\* the span is entered, func is called; a coroutine function is awaited, a
\* plain function has run when the call returns
ToolCall(decorator, name, func, positional, kwargs) ==
    /\ tool.pc \in {"idle", "done"}
    /\ decorator = "agent_tool" => Len(positional) >= 1
    /\ LET entered == [pc |-> "awaiting",
                       decorator |-> decorator,
                       func |-> func,
                       tool_name |-> ToolName(name, func),
                       positional |-> positional,
                       kwargs |-> kwargs,
                       calls |-> <<Forwarded(Bind(decorator, positional, kwargs))>>,
                       func_out |-> Pending,
                       outcome |-> Pending,
                       log |-> TraceEnter(<<>>, ToolName(name, func), 0)]
       IN  IF func.coroutine
           THEN tool' = entered
           ELSE \E out \in FuncOutcomes :
                    tool' = ToolFinish(entered, out, PlainCall(decorator, out))
    /\ UNCHANGED <<inside, got, snapshot, orch, trace_ids>>

\* the awaited coroutine completes: result = await func(...)
ToolResume ==
    /\ tool.pc = "awaiting"
    /\ \E out \in FuncOutcomes : tool' = ToolFinish(tool, out, out)
    /\ UNCHANGED <<inside, got, snapshot, orch, trace_ids>>

-----------------------------------------------------------------------------
(* The state outside the Runner before anything has been called *)

NoSnapshot == [taken |-> FALSE]
NoOrch == [pc |-> "idle"]
NoTool == [pc |-> "idle"]

OutsideInit ==
    /\ got = Pending
    /\ snapshot = NoSnapshot
    /\ orch = NoOrch
    /\ trace_ids = <<>>
    /\ tool = NoTool

-----------------------------------------------------------------------------
(* Specifications *)

\* Runner.__init__
Init ==
    /\ agents = [n \in Names |-> NoAgent]
    /\ execution_history = <<>>
    /\ frames = <<>>
    /\ events = <<>>
    /\ seq = NoSeq
    /\ par = NoPar
    /\ cleared_at = 0
    /\ latest = agents
    /\ OutsideInit

\* the top-level flow registers agents, dispatches one call at a time and clears
Next ==
    \/ \E n \in Names, u \in Units : RegisterAgent(n, u)
    \/ \E n \in Names, i \in Inputs : CallRun(n, i)
    \/ \E f \in DOMAIN frames : Dispatch(f)
    \/ \E f \in DOMAIN frames : Resume(f)
    \/ ClearHistory

Spec == Init /\ [][Next]_vars

\* the registries register_agent can have built
Registries == [Names -> Units \cup {NoAgent}]

\* the (agent, input) dictionaries of a step or task list
Steps == {[agent |-> n, input |-> i] : n \in Names, i \in Inputs}

InitRegistered ==
    /\ agents \in Registries
    /\ execution_history = <<>>
    /\ frames = <<>>
    /\ events = <<>>
    /\ seq = NoSeq
    /\ par = NoPar
    /\ cleared_at = 0
    /\ latest = agents
    /\ OutsideInit

\* one run_sequence over a runner whose agents are registered
NextSeq ==
    \/ \E steps \in ListsUpTo(Steps, MaxSteps) : SeqCall(steps)
    \/ SeqStep
    \/ \E f \in DOMAIN frames : Dispatch(f)
    \/ \E f \in DOMAIN frames : Resume(f)
    \/ SeqCollect
    \/ SeqReturn

SpecSeq == InitRegistered /\ [][NextSeq]_vars

\* one run_parallel over a runner whose agents are registered
NextPar ==
    \/ \E tasks \in ListsUpTo(Steps, MaxTasks) : ParCall(tasks)
    \/ \E f \in DOMAIN frames : Dispatch(f)
    \/ \E f \in DOMAIN frames : Resume(f)
    \/ ParResume

SpecPar == InitRegistered /\ [][NextPar]_vars

\* every operation of the Runner, on a runner that starts empty and makes at most
\* MaxObserved run calls
NextAccess ==
    \/ \E n \in Names, u \in Units : RegisterAgent(n, u)
    \/ \E n \in Names : GetAgent(n)
    \/ \E n \in Names, i \in Inputs : Len(frames) < MaxObserved /\ CallRun(n, i)
    \/ \E steps \in ListsUpTo(Steps, MaxObserved) : SeqCall(steps)
    \/ SeqStep
    \/ SeqCollect
    \/ SeqReturn
    \/ \E tasks \in ListsUpTo(Steps, MaxObserved) : ParCall(tasks)
    \/ ParResume
    \/ \E f \in DOMAIN frames : Dispatch(f)
    \/ \E f \in DOMAIN frames : Resume(f)
    \/ GetExecutionHistory
    \/ ClearHistory

SpecAccess == Init /\ [][NextAccess]_vars

\* Orchestrator.__init__ registers the four units of the pipeline
InitOrch ==
    /\ agents \in [OrchNames -> Units]
    /\ execution_history = <<>>
    /\ frames = <<>>
    /\ events = <<>>
    /\ seq = NoSeq
    /\ par = NoPar
    /\ cleared_at = 0
    /\ latest = agents
    /\ OutsideInit

\* one run_research, consumed to its end
NextOrch ==
    \/ \E q \in UserQueries : OrchCall(q)
    \/ \E f \in DOMAIN frames : Dispatch(f)
    \/ \E f \in DOMAIN frames : Resume(f)
    \/ OrchPlanned
    \/ OrchSearched
    \/ OrchSynthesized
    \/ OrchValidated

SpecOrch == InitOrch /\ [][NextOrch]_vars

\* a process that calls gen_trace_id
NextTrace == \E u \in Uuids : GenTraceId(u)

SpecTrace == Init /\ [][NextTrace]_vars

\* a process that calls functions decorated with function_tool or agent_tool
NextTool ==
    \/ \E decorator \in Decorators, name \in ToolNames, func \in Funcs,
          positional \in Positionals, kwargs \in Keywords :
           ToolCall(decorator, name, func, positional, kwargs)
    \/ ToolResume

SpecTool == Init /\ [][NextTool]_vars

\* a runner whose agents are registered, used in any of the three ways
NextRunner == Next \/ NextSeq \/ NextPar

SpecRunner == InitRegistered /\ [][NextRunner]_vars

\* several tasks of one event loop use the runner: they register and dispatch
\* while run calls of other tasks are suspended
NextTasks ==
    \/ \E n \in Names, u \in Units : RegisterAgent(n, u)
    \/ \E n \in Names, u \in Units : RegisterAgentMeanwhile(n, u)
    \/ \E n \in Names, i \in Inputs : CallRun(n, i)
    \/ \E n \in Names, i \in Inputs : SpawnRun(n, i)
    \/ \E f \in DOMAIN frames : Dispatch(f)
    \/ \E f \in DOMAIN frames : Resume(f)

SpecTasks == InitRegistered /\ [][NextTasks]_vars

\* a caller that dispatches, clears, takes the history and edits the list it got
NextHeld ==
    \/ \E n \in Names, i \in Inputs : CallRun(n, i)
    \/ \E f \in DOMAIN frames : Dispatch(f)
    \/ \E f \in DOMAIN frames : Resume(f)
    \/ ClearHistory
    \/ GetExecutionHistory
    \/ CallerAppend
    \/ CallerPop

SpecHeld == InitRegistered /\ [][NextHeld]_vars

\* The event loop runs every callback that is ready, so a step of the runner
\* that can be taken is taken; and every execute that was awaited completes
\* (the steps Resume)
Fairness ==
    /\ WF_vars(\E f \in DOMAIN frames : Dispatch(f))
    /\ WF_vars(\E f \in DOMAIN frames : Resume(f))
    /\ WF_vars(SeqStep)
    /\ WF_vars(SeqCollect)
    /\ WF_vars(SeqReturn)
    /\ WF_vars(ParResume)

SpecLive == InitRegistered /\ [][NextRunner]_vars /\ Fairness

-----------------------------------------------------------------------------
(* Observers used by the properties *)

Done(f) == frames[f].pc = "done"

\* the records call f has appended, the times its unit was invoked
RecordsBy(f) == Len(SelectSeq(events, LAMBDA e : e.kind = "record" /\ e.f = f))
InvokesBy(f) == Len(SelectSeq(events, LAMBDA e : e.kind = "invoke" /\ e.f = f))
Invocations == Len(SelectSeq(events, LAMBDA e : e.kind = "invoke"))

\* the first 500 characters of str(v)
Summary(v) == [text |-> v.id, len |-> IF v.len > SummaryLimit THEN SummaryLimit ELSE v.len]

\* under Spec the calls are made one after the other: the record of call f, made
\* after the last clear_history, is at this place of the history
RecordOf(f) == execution_history[f - cleared_at]

-----------------------------------------------------------------------------
(* Properties of Runner.run, checked under Spec *)

\* C1: every completed call of run appends exactly one record, whatever its
\* outcome: the history holds as many records as run calls have completed since
\* the last clear_history, and each completed call appended once.
C1_OneRecordPerRun ==
    /\ Len(execution_history) =
           Cardinality({f \in DOMAIN frames : f > cleared_at /\ Done(f)})
    /\ \A f \in DOMAIN frames : RecordsBy(f) = IF Done(f) THEN 1 ELSE 0

C1_Witness ==
    /\ Len(execution_history) = 2
    /\ execution_history[1].status = "error"
    /\ execution_history[2].status = "success"
    /\ \E f \in DOMAIN frames : Done(f) /\ frames[f].unit_out.kind = "error"

\* C2: the caller of run sees what the unit did: the value execute returned is
\* the value run returns, the failure execute raised is the failure run raises.
C2_TrueOutcome ==
    \A f \in DOMAIN frames :
        Done(f) /\ frames[f].unit_out.kind # "pending" =>
            frames[f].outcome = frames[f].unit_out

C2_Witness ==
    \E f, g \in DOMAIN frames :
        /\ Done(f) /\ frames[f].unit_out.kind = "value"
        /\ frames[f].unit_out.value.len > SummaryLimit
        /\ Done(g) /\ frames[g].unit_out.kind = "error"
        /\ Len(execution_history) = 2

\* C3: run with a name that is not registered fails with the not-found
\* ValueError, appends one error record for that name and invokes no unit.
C3_UnknownName ==
    /\ \A f \in DOMAIN frames :
           Done(f) /\ frames[f].agent = NoAgent =>
               /\ frames[f].outcome.kind = "error"
               /\ frames[f].outcome.exc.type = "ValueError"
               /\ frames[f].outcome.exc.msg.text =
                      "Agent '" \o frames[f].agent_name \o "' not found"
               /\ RecordsBy(f) = 1
               /\ InvokesBy(f) = 0
               /\ f > cleared_at =>
                      /\ RecordOf(f).status = "error"
                      /\ RecordOf(f).agent_name = frames[f].agent_name
                      /\ RecordOf(f).error = frames[f].outcome.exc.msg
    /\ Invocations = Cardinality({f \in DOMAIN frames : frames[f].agent # NoAgent})

C3_Witness ==
    \E f \in DOMAIN frames :
        /\ Done(f) /\ frames[f].agent = NoAgent
        /\ f > cleared_at
        /\ \E n \in Names : agents[n] # NoAgent

\* C4: when the unit fails, run appends an error record with the agent name,
\* the input summary and the error's message, and raises that same failure.
C4_FailureRecordedAndReraised ==
    \A f \in DOMAIN frames :
        Done(f) /\ frames[f].unit_out.kind = "error" =>
            /\ frames[f].outcome.kind = "error"
            /\ frames[f].outcome.exc = frames[f].unit_out.exc
            /\ frames[f].outcome.exc.origin = f
            /\ f > cleared_at =>
                   RecordOf(f) = [agent_name |-> frames[f].agent_name,
                                  input_data |-> Summary(frames[f].input_data),
                                  error      |-> frames[f].unit_out.exc.msg,
                                  status     |-> "error"]

C4_Witness ==
    \E f \in DOMAIN frames :
        /\ Done(f) /\ frames[f].unit_out.kind = "error"
        /\ f > cleared_at
        /\ frames[f].input_data.len > SummaryLimit
        /\ RecordOf(f).status = "error"

-----------------------------------------------------------------------------
(* Properties of Runner.run_sequence, checked under SpecSeq *)

\* C5: run_sequence aborts at the first failing step k: the steps after k are
\* never dispatched nor their units invoked, the history has gained k records
\* (success for the steps before k, error for step k) and the failure raised
\* is the failure of step k itself.
C5_SequenceAbortsAtFirstFailure ==
    seq.pc = "done" /\ seq.outcome.kind = "error" =>
        LET k == seq.i
        IN  /\ k \in 1..Len(seq.steps)
            /\ Len(frames) = k
            /\ \A j \in 1..k : frames[j].agent_name = seq.steps[j].agent
            /\ \A j \in 1..(k - 1) : frames[j].outcome.kind = "value"
            /\ frames[k].outcome.kind = "error"
            /\ seq.outcome = frames[k].outcome
            /\ Len(execution_history) = k
            /\ \A j \in 1..(k - 1) : execution_history[j].status = "success"
            /\ execution_history[k].status = "error"
            /\ Invocations = Cardinality({j \in 1..k : frames[j].agent # NoAgent})

C5_Witness ==
    /\ seq.pc = "done" /\ seq.outcome.kind = "error"
    /\ seq.i = 2
    /\ Len(seq.steps) = 3
    /\ Len(execution_history) = 2

\* C6: run_sequence dispatches its steps in list order, one at a time: step j
\* is dispatched, and its unit invoked, only after every earlier step has
\* returned, and a successful sequence returns the outputs of its steps in
\* step order.
C6_SequenceInOrder ==
    /\ \A j \in DOMAIN frames :
           /\ frames[j].agent_name = seq.steps[j].agent
           /\ frames[j].input_data = seq.steps[j].input
           /\ \A i \in 1..(j - 1) : Done(i) /\ frames[i].outcome.kind = "value"
    /\ \A n \in DOMAIN events :
           events[n].kind = "invoke" =>
               \A i \in 1..(events[n].f - 1) :
                   \E m \in 1..(n - 1) : events[m].kind = "success" /\ events[m].f = i
    /\ seq.pc = "done" /\ seq.outcome.kind = "value" =>
           /\ Len(seq.outcome.value) = Len(seq.steps)
           /\ \A i \in 1..Len(seq.steps) :
                  seq.outcome.value[i] = frames[i].unit_out.value

C6_Witness ==
    /\ seq.pc = "done" /\ seq.outcome.kind = "value"
    /\ Len(seq.steps) = 3
    /\ seq.outcome.value[1] # seq.outcome.value[2]
    /\ frames[1].agent # frames[2].agent

-----------------------------------------------------------------------------
(* Properties of Runner.run_parallel, checked under SpecPar *)

\* C7: when every task of run_parallel succeeds, the list returned has one
\* element per task and element i is the output of task i, whatever the order
\* in which the tasks completed.
C7_ParallelResultOrder ==
    par.pc = "done" /\ par.outcome.kind = "value" =>
        /\ Len(par.outcome.value) = Len(par.tasks)
        /\ \A i \in 1..Len(par.tasks) :
               /\ frames[par.kids[i]].agent_name = par.tasks[i].agent
               /\ frames[par.kids[i]].input_data = par.tasks[i].input
               /\ par.outcome.value[i] = frames[par.kids[i]].unit_out.value

C7_Witness ==
    /\ par.pc = "done" /\ par.outcome.kind = "value"
    /\ Len(par.tasks) = 2
    /\ Completed(par) = <<2, 1>>
    /\ par.outcome.value[1] # par.outcome.value[2]

\* C8: if a task of run_parallel fails, run_parallel raises (the failure of one
\* of its tasks) and returns no list, partial or otherwise.
C8_ParallelFailsAsAWhole ==
    par.pc = "done" =>
        /\ (\E k \in DOMAIN frames : frames[k].outcome.kind = "error") =>
               /\ par.outcome.kind = "error"
               /\ \E k \in DOMAIN frames : frames[k].outcome = par.outcome
        /\ par.outcome.kind = "value" =>
               \A k \in DOMAIN frames : frames[k].outcome.kind = "value"

C8_Witness ==
    /\ par.pc = "done" /\ par.outcome.kind = "error"
    /\ \E k \in DOMAIN frames : frames[k].outcome.kind = "value"

\* C9: run_parallel completes only when all its tasks have finished, also when
\* one fails: when it returns or raises no dispatch of the batch is outstanding
\* and the history holds one record per task.
C9_ParallelWaitsForAll ==
    par.pc = "done" =>
        /\ \A i \in 1..Len(par.kids) : Done(par.kids[i])
        /\ Len(execution_history) = Len(par.kids)

\* C10: all the dispatches of a batch are outstanding together: no unit of the
\* batch has completed while the unit of another task has yet to be started.
C10_AllOutstandingTogether ==
    par.pc # "idle" =>
        \A i, j \in 1..Len(par.kids) :
            frames[par.kids[i]].unit_out.kind # "pending" =>
                \/ frames[par.kids[j]].pc # "created"
                \/ agents[frames[par.kids[j]].agent_name] = NoAgent

\* the record run is to append for the completed call f
ExpectedRecord(f) ==
    IF frames[f].outcome.kind = "value"
    THEN [agent_name |-> frames[f].agent_name,
          input_data |-> Summary(frames[f].input_data),
          result     |-> Summary(frames[f].outcome.value),
          status     |-> "success"]
    ELSE [agent_name |-> frames[f].agent_name,
          input_data |-> Summary(frames[f].input_data),
          error      |-> frames[f].outcome.exc.msg,
          status     |-> "error"]

\* C11: the appends of concurrent dispatches do not corrupt the history: once
\* the N tasks of a batch have completed, in whatever interleaving, the history
\* holds exactly N records, one per task, each with that task's own agent name,
\* input summary and outcome.
C11_ConcurrentAppendsIntact ==
    par.pc # "idle" /\ (\A i \in 1..Len(par.kids) : Done(par.kids[i])) =>
        LET done == Completed(par)
        IN  /\ Len(execution_history) = Len(par.kids)
            /\ Len(done) = Len(par.kids)
            /\ \A i \in 1..Len(par.kids) : \E n \in 1..Len(par.kids) : done[n] = par.kids[i]
            /\ \A n \in 1..Len(par.kids) : execution_history[n] = ExpectedRecord(done[n])

C11_Witness ==
    /\ par.pc # "idle" /\ Len(par.kids) = 2
    /\ Done(1) /\ Done(2)
    /\ Completed(par) = <<2, 1>>
    /\ frames[1].agent = "async" /\ frames[2].agent = "async"
    /\ frames[1].outcome.kind = "value" /\ frames[2].outcome.kind = "error"
    /\ frames[1].agent_name # frames[2].agent_name

\* C12 (as stated): the records are in call order: the record of the call made
\* first is earlier in the history than the record of a call made later.
\* Within a batch the calls are made in task order.
C12_RecordsInCallOrder ==
    \A n, m \in 1..Len(Completed(par)) :
        Completed(par)[n] < Completed(par)[m] => n < m

\* C12 (amended): the records are in completion order: the n-th record is the
\* record of the n-th call to complete; two calls of which the first completed
\* before the second was dispatched have their records in call order.
C12_RecordsInCompletionOrder ==
    LET done == Completed(par)
    IN  /\ Len(execution_history) = Len(done)
        /\ \A n \in 1..Len(execution_history) : execution_history[n] = ExpectedRecord(done[n])
        /\ \A n, m \in 1..Len(done) :
               (\E x \in DOMAIN events :
                    /\ events[x].f = done[n] /\ events[x].kind \in {"success", "failure"}
                    /\ \E y \in (x + 1)..Len(events) :
                           events[y].f = done[m] /\ events[y].kind = "start")
               => n < m

C12_Witness ==
    /\ Len(execution_history) = 2
    /\ Completed(par) = <<2, 1>>
    /\ execution_history[1] # execution_history[2]

-----------------------------------------------------------------------------
(* Properties of the records, checked under Spec *)

\* C13: in every record the input summary, and in every success record the
\* result summary, is at most 500 characters long, whatever the size of the
\* input and of the output.
C13_SummariesBounded ==
    \A n \in 1..Len(execution_history) :
        /\ execution_history[n].input_data.len <= SummaryLimit
        /\ execution_history[n].status = "success" =>
               execution_history[n].result.len <= SummaryLimit

C13_Witness ==
    \E f \in DOMAIN frames :
        /\ Done(f) /\ f > cleared_at
        /\ frames[f].input_data.len > SummaryLimit
        /\ frames[f].outcome.kind = "value"
        /\ frames[f].outcome.value.len > SummaryLimit
        /\ RecordOf(f).input_data.len = SummaryLimit
        /\ RecordOf(f).result.len = SummaryLimit

\* C14: the error text of an error record is truncated like the summaries: it
\* is at most 500 characters long, whatever the size of the error's message.
C14_ErrorTextBounded ==
    \A n \in 1..Len(execution_history) :
        execution_history[n].status = "error" =>
            execution_history[n].error.len <= SummaryLimit

-----------------------------------------------------------------------------
(* The history as an audit trail, checked under Spec *)

\* what a step of the call f leaves of it: where it stands, the unit it is bound
\* to, what its caller got, how often a unit was invoked for it
Effect(f) ==
    [pc |-> frames[f].pc, agent |-> frames[f].agent,
     outcome |-> frames[f].outcome, invoked |-> InvokesBy(f)]

\* the effects a dispatch of `name` by call f may have, given the registry
\* entry u of the name alone
EffectsOf(u, name, f) ==
    IF u = NoAgent
    THEN {[pc |-> "done", agent |-> NoAgent, outcome |-> Error(NotFound(name)), invoked |-> 0]}
    ELSE IF u = "sync"
    THEN {[pc |-> "done", agent |-> u, outcome |-> o, invoked |-> 1] : o \in Outcomes(f)}
    ELSE {[pc |-> "awaiting", agent |-> u, outcome |-> Pending, invoked |-> 1]}

AllEffects(name, f) ==
    UNION {EffectsOf(u, name, f) : u \in Units \cup {NoAgent}}

\* C15: the history is never consulted to decide a dispatch: in every state,
\* whatever the history holds, the unit a call run(name, input) invokes and the
\* outcomes its caller may get are those the registry entry of the name gives.
C15_HistoryNotConsulted ==
    \A f \in DOMAIN frames :
        /\ frames[f].pc = "created" =>
               \A e \in AllEffects(frames[f].agent_name, f) :
                   (ENABLED (Dispatch(f) /\ Effect(f)' = e))
                       <=> e \in EffectsOf(agents[frames[f].agent_name], frames[f].agent_name, f)
        /\ frames[f].pc = "awaiting" =>
               \A o \in Outcomes(f) :
                   ENABLED (Resume(f) /\ Effect(f)' =
                       [pc |-> "done", agent |-> frames[f].agent, outcome |-> o, invoked |-> 1])

\* a call about to be dispatched while the history holds the record of an
\* earlier failed call with the same name and input
C15_Witness ==
    \E f \in DOMAIN frames :
        /\ frames[f].pc = "created"
        /\ agents[frames[f].agent_name] # NoAgent
        /\ \E n \in 1..Len(execution_history) :
               /\ execution_history[n].agent_name = frames[f].agent_name
               /\ execution_history[n].input_data = Summary(frames[f].input_data)
               /\ execution_history[n].status = "error"

-----------------------------------------------------------------------------
(* No retry, checked under SpecRunner *)

StartsBy(f) == Len(SelectSeq(events, LAMBDA e : e.kind = "start" /\ e.f = f))

\* C16: the core never retries a dispatch: every call of run enters its span
\* once and invokes the unit found at its lookup exactly once (never for an
\* unregistered name), run_sequence makes at most one run call per step and
\* run_parallel exactly one per task, also after a failure.
C16_NoRetry ==
    /\ \A f \in DOMAIN frames :
           /\ StartsBy(f) = IF frames[f].pc = "created" THEN 0 ELSE 1
           /\ InvokesBy(f) = IF frames[f].agent # NoAgent THEN 1 ELSE 0
           /\ RecordsBy(f) <= 1
    /\ Invocations = Cardinality({f \in DOMAIN frames : frames[f].agent # NoAgent})
    /\ seq.pc # "idle" =>
           /\ Len(frames) <= Len(seq.steps)
           /\ Len(frames) = IF \/ seq.pc = "loop"
                                \/ (seq.pc = "done" /\ seq.outcome.kind = "value")
                             THEN seq.i - 1 ELSE seq.i
    /\ par.pc # "idle" => Len(frames) = Len(par.tasks)

C16_Witness ==
    /\ seq.pc = "done" /\ seq.outcome.kind = "error"
    /\ Len(seq.steps) = 3
    /\ Len(frames) = 2
    /\ frames[2].agent # NoAgent

-----------------------------------------------------------------------------
(* The trace spans, checked under SpecRunner and SpecSeq *)

IsSignal(e) == e.kind \in {"start", "success", "failure"}

\* the signals of the span (op, f), in the order they were emitted
SignalsOf(op, f) == SelectSeq(events, LAMBDA e : IsSignal(e) /\ e.op = op /\ e.f = f)

Kinds(op, f) == [i \in 1..Len(SignalsOf(op, f)) |-> SignalsOf(op, f)[i].kind]

\* the position in the log of the k-th signal of the span (op, f)
SignalAt(op, f, k) ==
    CHOOSE i \in 1..Len(events) :
        /\ IsSignal(events[i]) /\ events[i].op = op /\ events[i].f = f
        /\ Cardinality({j \in 1..i : IsSignal(events[j]) /\ events[j].op = op /\ events[j].f = f}) = k

\* what the block of run's span did in the completed call f
BlockOutcome(f) ==
    IF frames[f].agent = NoAgent THEN Error(NotFound(frames[f].agent_name)) ELSE frames[f].unit_out

FrameSpan(f) == RunSpan(frames[f].agent_name)

\* C17: when the block inside a span raises, the span emits one failure signal
\* (with the failure's text) and no success signal, and the code around the span
\* gets the block's own failure: run's caller, run_sequence's caller and
\* run_parallel's caller each see the exception the block raised.
C17_SpanReraises ==
    /\ \A f \in DOMAIN frames :
           (frames[f].pc = "done" /\ BlockOutcome(f).kind = "error") =>
               /\ Kinds(FrameSpan(f), f) = <<"start", "failure">>
               /\ SignalsOf(FrameSpan(f), f)[2].error = BlockOutcome(f).exc.msg
               /\ frames[f].outcome = BlockOutcome(f)
    /\ (seq.pc = "done" /\ frames # <<>> /\ frames[Len(frames)].outcome.kind = "error") =>
           /\ Kinds(SeqSpan, 0) = <<"start", "failure">>
           /\ SignalsOf(SeqSpan, 0)[2].error = frames[Len(frames)].outcome.exc.msg
           /\ seq.outcome = frames[Len(frames)].outcome
    /\ (par.pc = "done" /\ par.first_exc.kind = "error") =>
           /\ Kinds(ParSpan, 0) = <<"start", "failure">>
           /\ SignalsOf(ParSpan, 0)[2].error = par.first_exc.exc.msg
           /\ par.outcome = par.first_exc

C17_Witness ==
    /\ seq.pc = "done"
    /\ Len(frames) = 2
    /\ frames[2].agent # NoAgent
    /\ frames[2].unit_out.kind = "error"
    /\ frames[2].unit_out.exc.msg.len = Long

\* C18: a span emits its start signal before anything its block does, then
\* nothing until the block ends, then one success signal if the block ended
\* normally and one failure signal otherwise: the signals of a span are start,
\* followed by exactly one of success or failure once the block has ended.
C18_SpanSignals ==
    /\ \A f \in DOMAIN frames :
           /\ frames[f].pc = "created" => \A i \in 1..Len(events) : events[i].f # f
           /\ frames[f].pc = "awaiting" => Kinds(FrameSpan(f), f) = <<"start">>
           /\ frames[f].pc = "done" =>
                  Kinds(FrameSpan(f), f) =
                      <<"start", IF BlockOutcome(f).kind = "value" THEN "success" ELSE "failure">>
           /\ \A i \in 1..Len(events) :
                  (events[i].f = f /\ events[i].kind # "start") =>
                      \E j \in 1..(i - 1) : events[j].kind = "start" /\ events[j].f = f
    /\ seq.pc = "idle" => Kinds(SeqSpan, 0) = <<>>
    /\ seq.pc \in {"loop", "await"} => Kinds(SeqSpan, 0) = <<"start">>
    /\ seq.pc = "done" =>
           Kinds(SeqSpan, 0) = <<"start", IF \A f \in DOMAIN frames : frames[f].outcome.kind = "value"
                                          THEN "success" ELSE "failure">>
    /\ par.pc = "idle" => Kinds(ParSpan, 0) = <<>>
    /\ par.pc = "gather" => Kinds(ParSpan, 0) = <<"start">>
    /\ par.pc = "done" =>
           Kinds(ParSpan, 0) = <<"start", IF par.first_exc.kind = "pending" THEN "success" ELSE "failure">>
    /\ (seq.pc # "idle" \/ par.pc # "idle") => events[1].kind = "start" /\ events[1].f = 0

C18_Witness ==
    /\ par.pc = "done"
    /\ par.outcome.kind = "value"
    /\ Len(frames) = 2
    /\ Kinds(FrameSpan(2), 2) = <<"start", "success">>
    /\ Kinds(ParSpan, 0) = <<"start", "success">>

Failures == {i \in 1..Len(events) : events[i].kind = "failure"}

\* C19: spans nest independently.  Every span takes its own start time and
\* measures its duration from it, whatever spans were opened in between; the
\* span of each run call of a sequence starts after the sequence's span and
\* ends before it; a failure in the inner block gives one failure signal from
\* the run span and then one from the sequence span, and no other.
C19_SpansNestIndependently ==
    /\ \A k \in 1..Len(events) :
           /\ events[k].kind = "start" => events[k].at = k - 1
           /\ events[k].kind \in {"success", "failure"} =>
                  \E j \in 1..(k - 1) :
                      /\ events[j].kind = "start"
                      /\ events[j].op = events[k].op /\ events[j].f = events[k].f
                      /\ events[k].duration = (k - 1) - events[j].at
                      /\ events[k].duration >= 0
    /\ \A f \in DOMAIN frames :
           /\ frames[f].pc # "created" =>
                  SignalAt(SeqSpan, 0, 1) < SignalAt(FrameSpan(f), f, 1)
           /\ seq.pc = "done" =>
                  /\ frames[f].pc = "done"
                  /\ SignalAt(FrameSpan(f), f, 2) < SignalAt(SeqSpan, 0, 2)
    /\ (seq.pc = "done" /\ \E f \in DOMAIN frames : BlockOutcome(f).kind = "error") =>
           LET f == Len(frames)
           IN  /\ BlockOutcome(f).kind = "error"
               /\ Failures = {SignalAt(FrameSpan(f), f, 2), SignalAt(SeqSpan, 0, 2)}
               /\ \A i \in Failures : events[i].error = BlockOutcome(f).exc.msg

C19_Witness ==
    /\ seq.pc = "done"
    /\ Len(frames) = 2
    /\ frames[1].outcome.kind = "value"
    /\ frames[2].agent # NoAgent
    /\ frames[2].outcome.kind = "error"
    /\ Cardinality(Failures) = 2

-----------------------------------------------------------------------------
(* Re-registration, checked under Spec *)

\* C20: register_agent on a registered name replaces the unit without failing:
\* it can always be called, for a free name as for a taken one, the registry
\* holds for every name exactly the unit of the last registration, and a run
\* call binds the unit of the last registration made before its lookup.
C20_LastRegistrationWins ==
    /\ [](/\ agents = latest
          /\ DOMAIN agents = Names
          /\ Idle => \A n \in Names, u \in Units : ENABLED RegisterAgent(n, u))
    /\ [][\A f \in DOMAIN frames :
              Dispatch(f) => frames'[f].agent = latest[frames[f].agent_name]]_vars

C20_Witness ==
    /\ Len(frames) = 2
    /\ frames[1].agent_name = frames[2].agent_name
    /\ frames[1].agent = "sync"
    /\ frames[2].agent = "async"
    /\ frames[2].pc = "done"
    /\ agents[frames[2].agent_name] = "async"

-----------------------------------------------------------------------------
(* The accessors and clear_history, checked under SpecAccess *)

\* C21: get_agent never fails and only reads: whenever the caller can call it,
\* it returns the unit last registered under the name, or None when nothing was
\* registered under it, and the registry and the history stay as they were.
C21_LookupReadOnly ==
    /\ [](Quiescent => \A n \in Names : ENABLED GetAgent(n))
    /\ [][\A n \in Names :
              GetAgent(n) =>
                  /\ got' = Value(IF latest[n] = NoAgent THEN "None" ELSE latest[n])
                  /\ agents' = agents
                  /\ execution_history' = execution_history]_vars

C21_Witness ==
    /\ got = Value("None")
    /\ Len(execution_history) = 2
    /\ \E n \in Names : agents[n] = NoAgent
    /\ \E n \in Names : agents[n] # NoAgent

\* C22: the history is append-only: every step of the runner that is not
\* clear_history (register_agent, get_agent, run, run_sequence, run_parallel,
\* get_execution_history) keeps every record it already had at its position,
\* so the old history is a prefix of the new one.
C22_AppendOnly ==
    [][\/ ClearHistory
       \/ /\ Len(execution_history) <= Len(execution_history')
          /\ \A n \in 1..Len(execution_history) :
                 execution_history'[n] = execution_history[n]]_vars

C22_Witness ==
    /\ Len(execution_history) = 2
    /\ snapshot.taken /\ Len(snapshot.list) = 1
    /\ got # Pending
    /\ par.pc = "idle" /\ seq.pc = "idle"

\* C23: clear_history empties the history and changes nothing else: right after
\* it the history has length 0 and the registry is what it was, and when the
\* next dispatch has completed the history is exactly that dispatch's record.
C23_ClearOnlyHistory ==
    /\ [][ClearHistory =>
              /\ Len(execution_history') = 0
              /\ agents' = agents
              /\ frames' = frames /\ events' = events]_vars
    /\ [](\A f \in DOMAIN frames :
              (f = cleared_at + 1 /\ f = Len(frames) /\ Done(f)) =>
                  execution_history = <<ExpectedRecord(f)>>)

C23_Witness ==
    /\ cleared_at = 1
    /\ Len(frames) = 2 /\ Done(2)
    /\ Len(execution_history) = 1
    /\ frames[1].agent # NoAgent
    /\ frames[2].agent # NoAgent
    /\ frames[1].agent_name # frames[2].agent_name

-----------------------------------------------------------------------------
(* The research pipeline, checked under SpecOrch *)

\* the dispatches of a run whose planner returned k queries
Pipeline(k) ==
    <<"query_planner">> \o [n \in 1..k |-> "web_searcher"] \o <<"synthesis", "output_guardrails">>

FrameNames == [f \in DOMAIN frames |-> frames[f].agent_name]

IsPrefix(s, t) == Len(s) <= Len(t) /\ \A n \in 1..Len(s) : s[n] = t[n]

\* the position in the log of the first signal of kind `kind` of run call f
FrameSignal(f, kind) ==
    CHOOSE n \in 1..Len(events) : events[n].f = f /\ events[n].kind = kind

\* C24: run_research drives the dispatcher through the fixed pipeline: the
\* planner once, then the searcher once per planned query in planned order,
\* then the synthesis once, then the guardrails once; a stage is dispatched only
\* after the dispatch before it has returned a value, and the history of a
\* successful run is the records of exactly that sequence, all successes.
C24_FixedPipeline ==
    orch.pc # "idle" =>
        LET planned == frames[1].pc = "done" /\ frames[1].outcome.kind = "value"
            queries == IF planned THEN frames[1].outcome.value.queries ELSE <<>>
        IN  /\ frames[1].agent_name = "query_planner"
            /\ frames[1].input_data = orch.query
            /\ ~planned => Len(frames) = 1
            /\ planned => IsPrefix(FrameNames, Pipeline(Len(queries)))
            /\ \A n \in 1..Len(queries) :
                   (n + 1) \in DOMAIN frames => frames[n + 1].input_data = queries[n]
            /\ \A f \in 2..Len(frames) :
                   /\ frames[f - 1].pc = "done" /\ frames[f - 1].outcome.kind = "value"
                   /\ frames[f].pc # "created" =>
                          FrameSignal(f - 1, "success") < FrameSignal(f, "start")
            /\ (orch.pc = "done" /\ orch.outcome.kind = "value") =>
                   /\ FrameNames = Pipeline(Len(queries))
                   /\ execution_history = [f \in DOMAIN frames |-> ExpectedRecord(f)]
                   /\ \A n \in 1..Len(execution_history) :
                          /\ execution_history[n].status = "success"
                          /\ execution_history[n].agent_name = Pipeline(Len(queries))[n]

C24_Witness ==
    /\ orch.pc = "done" /\ orch.outcome.kind = "value"
    /\ Len(orch.plan) = 2
    /\ orch.plan[1] # orch.plan[2]
    /\ Len(execution_history) = 5

\* the positions of the elements of kind `kind` in the progress sequence
Elements(kind) == {n \in 1..Len(orch.out) : orch.out[n].kind = kind}

\* C25: when a dispatch of run_research fails, the pipeline halts: the failed
\* call is the last one made, the progress sequence ends with the one failure
\* notification (carrying the failure's text) and holds no report, the
\* generator raises the dispatch's failure, and the consumer reports an error.
\* Without a failed dispatch no failure notification is emitted.
C25_FailureHaltsPipeline ==
    /\ \A f \in DOMAIN frames :
           (frames[f].owner = "orch" /\ frames[f].outcome.kind = "error") =>
               /\ f = Len(frames)
               /\ orch.pc = "done" =>
                      /\ Elements("failure") = {Len(orch.out)}
                      /\ orch.out[Len(orch.out)].text = frames[f].outcome.exc.msg.text
                      /\ Elements("report") = {}
                      /\ orch.outcome = frames[f].outcome
                      /\ Consumed(orch) = [kind |-> "error", text |-> frames[f].outcome.exc.msg.text]
    /\ (orch.pc # "idle" /\ \A f \in DOMAIN frames : frames[f].outcome.kind # "error") =>
           Elements("failure") = {}

C25_Witness ==
    /\ orch.pc = "done"
    /\ Len(frames) = 4
    /\ frames[4].agent_name = "synthesis"
    /\ frames[4].outcome.kind = "error"
    /\ Elements("failure") # {}

\* the elements of the progress sequence whose text contains the header token
WithToken == {n \in 1..Len(orch.out) : orch.out[n].token}

\* C26 (as stated): in a run_research that ends normally the composed report is
\* the last element, emitted once and after the four stages have succeeded, it
\* is the only element that contains the header token, and every element before
\* it is a progress line.
C26_ReportLastAndOnlyHeader ==
    (orch.pc = "done" /\ orch.outcome.kind = "value") =>
        /\ Elements("report") = {Len(orch.out)}
        /\ \A n \in 1..(Len(orch.out) - 1) : orch.out[n].kind = "progress"
        /\ FrameNames = Pipeline(Len(orch.plan))
        /\ \A f \in DOMAIN frames : frames[f].outcome.kind = "value"
        /\ WithToken = {Len(orch.out)}

-----------------------------------------------------------------------------
(* No timeout, checked under SpecSeq *)

-----------------------------------------------------------------------------
(* gen_trace_id, checked under SpecTrace *)

\* C28 (as stated): gen_trace_id gives process-unique identifiers: no two
\* calls in one process return the same string.
C28_TraceIdsUnique ==
    \A n, m \in 1..Len(trace_ids) :
        n # m => trace_ids[n].id # trace_ids[m].id

-----------------------------------------------------------------------------
(* The span of Runner.run, checked under Spec *)

\* the positions in the log of the events of run call f
EventsOf(f) == {n \in 1..Len(events) : events[n].f = f}

\* C29: the span of run brackets the whole dispatch.  Of the events of a call
\* the start signal is the first, also when the name is not registered; the
\* unit is invoked after it; the record is appended after that and before the
\* end signal, which is the last; and the end signal is success exactly when
\* run returns a value and failure exactly when run raises.
C29_SpanBracketsDispatch ==
    \A f \in DOMAIN frames :
        frames[f].pc # "created" =>
            LET first == CHOOSE n \in EventsOf(f) : \A m \in EventsOf(f) : n <= m
                last  == CHOOSE n \in EventsOf(f) : \A m \in EventsOf(f) : m <= n
            IN  /\ events[first].kind = "start"
                /\ events[first].op = "Run Agent: " \o frames[f].agent_name
                /\ frames[f].agent # NoAgent =>
                       events[first + 1].kind = "invoke" /\ events[first + 1].f = f
                /\ frames[f].pc = "awaiting" => last = first + 1
                /\ frames[f].pc = "done" =>
                       /\ events[last - 1].kind = "record" /\ events[last - 1].f = f
                       /\ events[last].kind \in {"success", "failure"}
                       /\ events[last].kind = "success" <=> frames[f].outcome.kind = "value"
                       /\ events[last].kind = "failure" <=> frames[f].outcome.kind = "error"
                       /\ Cardinality(EventsOf(f)) = IF frames[f].agent = NoAgent THEN 3 ELSE 4

C29_Witness ==
    /\ Len(frames) = 2
    /\ frames[1].pc = "done" /\ frames[1].agent = NoAgent
    /\ frames[2].pc = "done" /\ frames[2].agent = "async"
    /\ frames[2].outcome.kind = "value"

-----------------------------------------------------------------------------
(* The decorators, checked under SpecTool *)

\* the cases the decorators are written for: function_tool on any function,
\* agent_tool on a coroutine function
Awaitable(t) == t.decorator = "function_tool" \/ t.func.coroutine

-----------------------------------------------------------------------------
(* The shape of the records, checked under SpecRunner *)

\* the run calls that appended a record, in the order they appended
Recorders == SelectSeq(events, LAMBDA e : e.kind = "record")

\* the run call that appended record n of the history: the history holds the
\* records appended since the last clear_history
RecorderOf(n) == Recorders[Len(Recorders) - Len(execution_history) + n].f

\* C31: every record of the history is well formed.  Its agent_name is the
\* name its run call was given, it has an input_data summary and a status that
\* is success or error, it has a result field exactly when the status is
\* success and an error field exactly when the status is error, never both.
C31_RecordsWellFormed ==
    /\ Len(execution_history) <= Len(Recorders)
    /\ \A n \in 1..Len(execution_history) :
           LET rec == execution_history[n]
               call == frames[RecorderOf(n)]
           IN  /\ {"agent_name", "input_data", "status"} \subseteq DOMAIN rec
               /\ rec.agent_name = call.agent_name
               /\ rec.input_data = Summary(call.input_data)
               /\ rec.status \in {"success", "error"}
               /\ ("result" \in DOMAIN rec) <=> (rec.status = "success")
               /\ ("error" \in DOMAIN rec) <=> (rec.status = "error")
               /\ ~ {"result", "error"} \subseteq DOMAIN rec

C31_Witness ==
    /\ Len(execution_history) >= 2
    /\ execution_history[1].status = "success"
    /\ execution_history[1].result.len = SummaryLimit
    /\ execution_history[2].status = "error"
    /\ execution_history[1].agent_name # execution_history[2].agent_name
    /\ par.pc = "done"

-----------------------------------------------------------------------------
(* Termination, checked under SpecLive *)

\* the most run calls a behaviour makes
MaxFrames == MaxCalls + MaxSteps + MaxTasks

\* C32: if every execute completes, every call completes.  A run call that
\* has been made is eventually done and has appended its record, a
\* run_sequence and a run_parallel that have been called eventually return or
\* raise.
C32_EveryCallCompletes ==
    /\ \A f \in 1..MaxFrames :
           (f \in DOMAIN frames) ~> (f \in DOMAIN frames /\ Done(f) /\ RecordsBy(f) = 1)
    /\ (seq.pc \in {"loop", "await"}) ~> (seq.pc = "done")
    /\ (par.pc = "gather") ~> (par.pc = "done")

C32_Witness ==
    /\ par.pc = "done"
    /\ par.outcome.kind = "error"
    /\ Len(frames) = 2
    /\ \A f \in DOMAIN frames : Done(f)
    /\ frames[2].unit_out.kind = "value"
    /\ Len(execution_history) = 2

-----------------------------------------------------------------------------
(* The siblings of a failed task, checked under SpecPar *)

\* the children of the batch that failed, in the order they failed
FailedInTime ==
    SelectSeq(Completed(par), LAMBDA k : frames[k].outcome.kind = "error")

\* the position in the log of the end signal of run_parallel
ParEnd == CHOOSE n \in 1..Len(events) :
              /\ events[n].op = ParSpan /\ events[n].kind \in {"success", "failure"}

\* the position in the log of the record of call f
RecordAt(f) == CHOOSE n \in 1..Len(events) : events[n].kind = "record" /\ events[n].f = f

\* C33: a failed batch does not cancel its other tasks.  The failure
\* run_parallel raises is that of the child that failed first in time; a child
\* still suspended in execute when run_parallel has raised can still complete,
\* and when it does it appends its own record, for the outcome of its own unit,
\* and leaves what run_parallel raised as it was.
C33_SiblingsNotCancelled ==
    /\ [](par.pc = "done" /\ par.outcome.kind = "error" =>
             /\ par.outcome = frames[FailedInTime[1]].outcome
             /\ \A f \in DOMAIN frames :
                    frames[f].pc = "awaiting" => ENABLED Resume(f))
    /\ [][\A f \in DOMAIN frames :
              par.pc = "done" /\ frames[f].pc = "awaiting" /\ frames'[f].pc = "done" =>
                  /\ frames'[f].outcome = frames'[f].unit_out
                  /\ frames'[f].outcome \in Outcomes(f)
                  /\ execution_history' = Append(execution_history, ExpectedRecord(f)')
                  /\ par' = par]_vars

C33_Witness ==
    /\ par.pc = "done" /\ par.outcome.kind = "error"
    /\ Len(frames) = 2
    /\ Done(1) /\ Done(2)
    /\ par.outcome = frames[2].outcome
    /\ frames[1].outcome.kind = "error"
    /\ frames[1].unit_out.kind = "error"
    /\ ParEnd < RecordAt(1)
    /\ Len(execution_history) = 2

-----------------------------------------------------------------------------
(* Registration while a call is suspended, checked under SpecTasks *)

\* C34: a dispatch is bound to the unit found at its lookup.  The lookup of a
\* run call finds the unit registered at that moment; from then on the call
\* keeps that unit whatever is registered meanwhile: a registration changes
\* nothing of a suspended call, and when the call completes it is the execute
\* of that unit that has completed, the result handed back is its result and
\* the record appended is the record of that result.
C34_BoundAtLookup ==
    [][\A f \in DOMAIN frames :
           /\ frames[f].pc = "created" /\ frames'[f].pc # "created" =>
                  frames'[f].agent = agents[frames[f].agent_name]
           /\ frames[f].pc = "awaiting" =>
                  /\ frames'[f].agent = frames[f].agent
                  /\ agents' # agents =>
                         frames'[f] = frames[f] /\ execution_history' = execution_history
                  /\ frames'[f].pc = "done" =>
                         /\ frames'[f].outcome \in Outcomes(f)
                         /\ frames'[f].outcome = frames'[f].unit_out
                         /\ execution_history' =
                                Append(execution_history, ExpectedRecord(f)')]_vars

C34_Witness ==
    /\ Len(frames) = 2
    /\ frames[1].agent_name = frames[2].agent_name
    /\ Done(1) /\ frames[1].agent = "async" /\ frames[1].outcome.kind = "value"
    /\ Done(2) /\ frames[2].agent = "sync"
    /\ agents[frames[1].agent_name] = "sync"
    /\ FrameSignal(2, "start") < RecordAt(1)

-----------------------------------------------------------------------------
(* The list get_execution_history returns, checked under SpecHeld *)

\* C35: the list get_execution_history returns is separate from the runner's.
\* The list the caller holds has the elements it was given, changed by the
\* caller's own edits only: dispatches and clear_history after the call leave
\* its length and order alone; and an edit of that list by the caller leaves
\* the runner's history as it was.
C35_SnapshotSeparate ==
    /\ [](snapshot.taken => Held = snapshot.given)
    /\ [][snapshot.taken /\ snapshot'.edits = snapshot.edits + 1 =>
              execution_history' = execution_history]_vars
    /\ [][snapshot.taken /\ execution_history' # execution_history =>
              Held' = Held]_vars

C35_Witness ==
    /\ snapshot.taken
    /\ snapshot.edits = 2
    /\ Len(execution_history) = 2
    /\ Held = <<execution_history[1], CallerItem, CallerItem>>

-----------------------------------------------------------------------------
(* Failures the units absorb, checked under SpecOrch *)

\* the run calls of the pipeline for the unit `name` that have completed
DoneCalls(name) == {f \in DOMAIN frames : frames[f].agent_name = name /\ Done(f)}

\* the generator has taken the outcome of run call f
Taken(f) == f < Len(frames) \/ orch.pc = "done"

\* C36: a failing web search never halts the pipeline.  Every completed
\* web_searcher dispatch returned a SearchResult, with status error when the
\* search call failed, and is recorded with status success; once the generator
\* has taken such a result it has yielded the status line and no failure
\* notification for it, and has gone on to the next search or to the synthesis;
\* every planned query is searched whatever the results before it.
C36_SearchFailureTolerated ==
    /\ \A f \in DoneCalls("web_searcher") :
           /\ frames[f].outcome.kind = "value"
           /\ frames[f].outcome.value \in SearchResults
           /\ execution_history[f].agent_name = "web_searcher"
           /\ execution_history[f].status = "success"
           /\ Taken(f) =>
                  /\ orch.results[f - 1] = frames[f].outcome.value
                  /\ StatusLine(frames[f].outcome.value) \in {orch.out[n] : n \in 1..Len(orch.out)}
                  /\ f + 1 \in DOMAIN frames
                  /\ frames[f + 1].agent_name =
                         IF f - 1 < Len(orch.plan) THEN "web_searcher" ELSE "synthesis"
                  /\ Elements("failure") # {} => frames[Len(frames)].agent_name = "synthesis"
    /\ orch.pc \in {"synthesizing", "validating", "done"} /\ frames[1].outcome.kind = "value" =>
           Cardinality(DoneCalls("web_searcher")) = Len(orch.plan)

C36_Witness ==
    /\ orch.pc = "done" /\ orch.outcome.kind = "value"
    /\ Len(orch.plan) = 2
    /\ orch.results[1].status = "error"
    /\ orch.results[2].status = "success"
    /\ Elements("failure") = {}
    /\ Elements("report") = {Len(orch.out)}

\* C37: content validation fails open.  Every completed output_guardrails
\* dispatch returned a ValidationResult and is recorded with status success;
\* when the model call or its handling raised, the result has is_clean true
\* and no issues; the generator then reports the verdict of that result (Clean
\* for a failed validation), emits the composed report as its last element and
\* ends normally, without a failure notification.
C37_ValidationFailsOpen ==
    \A f \in DoneCalls("output_guardrails") :
        /\ frames[f].outcome.kind = "value"
        /\ frames[f].outcome.value \in Validations
        /\ frames[f].outcome.value.message = "Validation error" =>
               frames[f].outcome.value.is_clean /\ ~frames[f].outcome.value.issues
        /\ execution_history[f].agent_name = "output_guardrails"
        /\ execution_history[f].status = "success"
        /\ orch.pc = "done" =>
               /\ orch.outcome.kind = "value"
               /\ Elements("failure") = {}
               /\ Elements("report") = {Len(orch.out)}
               /\ orch.out[Len(orch.out) - 2] = VerdictLine(frames[f].outcome.value)
               /\ frames[f].outcome.value.message = "Validation error" =>
                      orch.out[Len(orch.out) - 2].text = "Validation completed: Clean"

C37_Witness ==
    /\ orch.pc = "done"
    /\ frames[Len(frames)].agent_name = "output_guardrails"
    /\ frames[Len(frames)].outcome.value.message = "Validation error"
    /\ orch.out[Len(orch.out)].kind = "report"
    /\ Consumed(orch).kind = "report"

====
